---- MODULE Spec2Model ----
(***************************************************************************)
(* BOFTModel (src/peft/tuners/boft/model.py): the registry of named        *)
(* adapter configurations, the module tree of the adapted model, and the   *)
(* operations that inject, mark, delete, switch, merge and unload          *)
(* adapters.                                                               *)
(*                                                                         *)
(* A module is a record; hasattr(m, "f") is "f" \in DOMAIN m.  A parameter *)
(* is a record [id, data, requires_grad, device]; data is the base value   *)
(* followed by the adapters merged into it.  A module or parameter name is *)
(* the sequence of its dotted atoms ("q.boft_R.default" is                 *)
(* <<"q", "boft_R", "default">>).                                          *)
(***************************************************************************)
EXTENDS Integers, Sequences, FiniteSets, TLC

VARIABLES
    model,            \* self.model: slot name -> module
    peft_config,      \* self.peft_config: insertion-ordered <<[name, config]>>
    active_adapter,   \* self.active_adapter
    pc,               \* "check", "inject", "mark", "wrap": inside inject_adapter;
                      \* "idle": between calls; "failed": a call raised after
                      \* it had begun to change the model; "unloaded"
    adapter_name,     \* adapter being injected
    key_list,         \* matched keys inject_adapter has still to visit
    last,             \* the last call that finished: [op, arg, err, value]
    log,              \* merge / replace events of the unload loop, in order
    injections,       \* how many times inject_adapter has been started
    dropout_entries_are_modules
                      \* whether a per-adapter boft_dropout entry is itself a
                      \* submodule (layer.py decides; both are explored)

vars == <<model, peft_config, active_adapter, pc, adapter_name, key_list,
          last, log, injections, dropout_entries_are_modules>>

\* Largest number of adapter injections in one run.
MaxInjections == 2

AdapterOrder == <<"default", "adapter1">>
AdapterNames == {AdapterOrder[i] : i \in 1..Len(AdapterOrder)}

-----------------------------------------------------------------------------
(* Python helpers *)

None == [id |-> "None"]

HasAttr(m, f) == f \in DOMAIN m

\* the searched substrings ("boft", "boft_", "lora", "bias") an atom contains
Needles(atom) ==
    CASE atom \in {"boft_R", "boft_s", "boft_dropout"} -> {"boft", "boft_"}
      [] atom = "bias" -> {"bias"}
      [] OTHER -> {}

\* needle in name
In(needle, name) == \E i \in 1..Len(name) : needle \in Needles(name[i])

RECURSIVE Concat(_)
Concat(seqs) == IF seqs = <<>> THEN <<>> ELSE Head(seqs) \o Concat(Tail(seqs))

\* the members of S in AdapterOrder
Ordered(S) == SelectSeq(AdapterOrder, LAMBDA a : a \in S)

Param(id, dev) == [id |-> id, data |-> <<id>>, requires_grad |-> TRUE, device |-> dev]

-----------------------------------------------------------------------------
(* The pretrained model handed to BOFTModel *)

SlotOrder == <<"q", "v", "ln", "cls">>

BaseModel ==
    [q   |-> [class |-> "Linear", in_features |-> 4, out_features |-> 4,
              weight |-> Param("q.weight", "cuda:0"),
              bias |-> Param("q.bias", "cuda:0")],
     v   |-> [class |-> "Linear8bitLt", in_features |-> 4, out_features |-> 8,
              weight |-> Param("v.weight", "cuda:1"),
              bias |-> None, state |-> "MatmulLtState"],
     ln  |-> [class |-> "LayerNorm",
              weight |-> Param("ln.weight", "cuda:0"),
              bias |-> Param("ln.bias", "cuda:0")],
     cls |-> [class |-> "Linear", in_features |-> 8, out_features |-> 2,
              weight |-> Param("cls.weight", "cpu"),
              bias |-> Param("cls.bias", "cpu")]]

\* isinstance(m, torch.nn.Linear)
IsTorchLinear(m) == m.class \in {"Linear", "Linear8bitLt", "boft.Linear"}

\* isinstance(m, BOFTLayer)
IsBOFTLayer(m) == m.class = "boft.Linear"

\* isinstance(m, ModulesToSaveWrapper)
IsModulesToSaveWrapper(m) == m.class = "ModulesToSaveWrapper"

-----------------------------------------------------------------------------
(* BOFTConfig *)

Enum(cls, value) == [enum |-> cls, value |-> value]

\* the fields of the BOFTConfig dataclass whose values are Enum members
EnumFields == {"peft_type"}


BOFTConfig(bias, target_modules) ==
    [peft_type |-> Enum("PeftType", "BOFT"),
     inference_mode |-> FALSE,
     bias |-> bias,
     target_modules |-> target_modules,
     modules_to_save |-> IF target_modules = {"q"} THEN {"cls"} ELSE {},
     fan_in_fan_out |-> (target_modules = {"q", "v"}),
     boft_block_size |-> Cardinality(target_modules) * 2,
     boft_block_num |-> 0,
     boft_n_butterfly_factor |-> 1,
     boft_bias_fit |-> FALSE,
     boft_dropout |-> Cardinality(target_modules),
     init_boft_weights |-> TRUE]

\* the configurations callers pass: every bias policy the code names, one
\* it does not, a target that is not a torch.nn.Linear
Configs ==
    {BOFTConfig("none", {"q"}), BOFTConfig("none", {"q", "v"}),
     BOFTConfig("all", {"q", "v"}), BOFTConfig("boft_only", {"q"}),
     BOFTConfig("lora_only", {"q"}), BOFTConfig("none", {"v", "ln"})}

\* list(self.peft_config.keys())
Keys(cfgs) == [i \in 1..Len(cfgs) |-> cfgs[i].name]

KeySet(cfgs) == {cfgs[i].name : i \in 1..Len(cfgs)}

\* self.peft_config[name]
Lookup(cfgs, name) == (CHOOSE i \in 1..Len(cfgs) : cfgs[i].name = name)

ConfigOf(cfgs, name) == cfgs[Lookup(cfgs, name)].config

\* del self.peft_config[name]
DelKey(cfgs, name) == SelectSeq(cfgs, LAMBDA e : e.name /= name)

-----------------------------------------------------------------------------
(* boft/layer.py: BOFTLayer and Linear, as model.py uses them *)

\* BOFTLayer.update_layer: the per-adapter tables get an entry for adapter
UpdateLayer(layer, adapter, boft_block_size, boft_block_num, boft_n_butterfly_factor, boft_bias_fit, boft_dropout, init_boft_weights) ==
    LET p == [Param("boft", layer.weight.device)
                EXCEPT !.requires_grad = (adapter = layer.active_adapter)]
        put(tbl, val) == [a \in DOMAIN tbl \cup {adapter} |->
                            IF a = adapter THEN val ELSE tbl[a]]
    IN [layer EXCEPT
          !.boft_block_size = put(@, boft_block_size),
          !.boft_block_num = put(@, boft_block_num),
          !.boft_R = put(@, [p EXCEPT !.id = "boft_R"]),
          !.boft_s = put(@, [p EXCEPT !.id = "boft_s"]),
          !.boft_dropout = put(@, boft_dropout)]

\* Linear(adapter_name, in_features, out_features, bias=bias, **kwargs):
\* a fresh nn.Linear on the default device carrying one adapter
BOFTLinear(adapter, in_features, out_features, bias, kwargs) ==
    UpdateLayer(
        [class |-> "boft.Linear",
         in_features |-> in_features, out_features |-> out_features,
         weight |-> Param("fresh.weight", "cpu"),
         bias |-> IF bias THEN Param("fresh.bias", "cpu") ELSE None,
         fan_in_fan_out |-> kwargs.fan_in_fan_out,
         boft_block_size |-> <<>>, boft_block_num |-> <<>>,
         boft_R |-> <<>>, boft_s |-> <<>>, boft_dropout |-> <<>>,
         active_adapter |-> adapter,
         merged |-> FALSE, merged_adapters |-> <<>>,
         disable_adapters |-> FALSE],
        adapter, kwargs.boft_block_size, kwargs.boft_block_num,
        kwargs.boft_n_butterfly_factor, FALSE, kwargs.boft_dropout,
        kwargs.init_boft_weights)

\* torch.nn.Linear(in_features, out_features, bias=bias)
TorchLinear(in_features, out_features, bias) ==
    [class |-> "Linear",
     in_features |-> in_features, out_features |-> out_features,
     weight |-> Param("fresh.weight", "cpu"),
     bias |-> IF bias THEN Param("fresh.bias", "cpu") ELSE None]

\* BOFTLayer.merge: every active adapter that has weights is folded into
\* the layer's weight
Merge(layer, safe_merge) ==
    IF layer.active_adapter \in DOMAIN layer.boft_R
    THEN [layer EXCEPT
            !.weight.data = Append(@, layer.active_adapter),
            !.merged_adapters = Append(@, layer.active_adapter),
            !.merged = TRUE]
    ELSE layer

\* BaseTunerLayer.set_adapter
LayerSetAdapter(layer, adapter) == [layer EXCEPT !.active_adapter = adapter]

\* BaseTunerLayer.enable_adapters / ModulesToSaveWrapper.enable_adapters
EnableAdapters(m, enabled) == [m EXCEPT !.disable_adapters = ~enabled]

\* module.requires_grad_(flag) on a layer: its own parameters and tables
RequiresGrad(m, flag) ==
    LET set(p) == IF p = None THEN p ELSE [p EXCEPT !.requires_grad = flag]
        m1 == [m EXCEPT !.weight = set(@), !.bias = set(@)]
    IN IF HasAttr(m1, "boft_R")
       THEN [m1 EXCEPT !.boft_R = [a \in DOMAIN @ |-> set(@[a])],
                       !.boft_s = [a \in DOMAIN @ |-> set(@[a])]]
       ELSE m1

\* module.to(device): every parameter of the module
ModuleTo(m, device) ==
    LET mv(p) == IF p = None THEN p ELSE [p EXCEPT !.device = device]
        m1 == [m EXCEPT !.weight = mv(@), !.bias = mv(@)]
    IN IF HasAttr(m1, "boft_R")
       THEN [m1 EXCEPT !.boft_R = [a \in DOMAIN @ |-> mv(@[a])],
                       !.boft_s = [a \in DOMAIN @ |-> mv(@[a])]]
       ELSE m1

-----------------------------------------------------------------------------
(* torch.nn.Module: the module tree *)

\* the keys of the submodules of the module in slot k, in named_modules order
ChildKeys(m, k) ==
    IF IsBOFTLayer(m)
    THEN <<  <<k, "boft_dropout">>  >>
         \o (IF dropout_entries_are_modules
             THEN [i \in 1..Len(Ordered(DOMAIN m.boft_dropout)) |->
                     <<k, "boft_dropout", Ordered(DOMAIN m.boft_dropout)[i]>>]
             ELSE <<>>)
         \o << <<k, "boft_R">>, <<k, "boft_s">> >>
    ELSE IF IsModulesToSaveWrapper(m)
    THEN << <<k, "original_module">>, <<k, "modules_to_save">> >>
         \o [i \in 1..Len(Ordered(DOMAIN m.modules_to_save)) |->
                <<k, "modules_to_save", Ordered(DOMAIN m.modules_to_save)[i]>>]
    ELSE <<>>

\* [key for key, _ in tree.named_modules()]: the root "", then every slot
\* followed by its submodules
NamedModules(tree) ==
    << <<>> >> \o Concat([i \in 1..Len(SlotOrder) |->
                            << <<SlotOrder[i]>> >>
                            \o ChildKeys(tree[SlotOrder[i]], SlotOrder[i])])

\* whether tree.get_submodule(key) finds a module (it raises AttributeError
\* otherwise)
Resolves(tree, key) ==
    LET keys == NamedModules(tree)
    IN key \in {keys[i] : i \in 1..Len(keys)}

\* _get_submodules(tree, key): the target at key.  Only the modules in the
\* slots of the root are adapter layers or wrappers; the others are opaque.
GetTarget(tree, key) ==
    IF Len(key) = 1 THEN tree[key[1]] ELSE [class |-> "Module"]

-----------------------------------------------------------------------------
(* BOFTModel *)

\* _check_new_adapter_config: TRUE when it raises ValueError
CheckNewAdapterConfigRaises(cfgs, config) ==
    (Len(cfgs) > 1) /\ (config.bias /= "none")

\* _replace_module without the final dispatch of the boft_ submodules to
\* the device of the child's weight
ReplaceModuleNoDispatch(tree, child_name, new_module, child) ==
    LET m1 == [new_module EXCEPT !.weight = child.weight, !.bias = child.bias]
        m2 == IF HasAttr(child, "state") /\ child.state /= "None"
              THEN ModuleTo([state |-> child.state] @@ m1, child.weight.device)
              ELSE m1
    IN [tree EXCEPT ![child_name] = m2]

\* _replace_module(parent, child_name, new_module, child); parent is the root
ReplaceModule(tree, child_name, new_module, child) ==
    LET c == IF HasAttr(child, "base_layer") THEN child.base_layer ELSE child
        m1 == IF ~HasAttr(new_module, "base_layer")
              THEN LET w == [new_module EXCEPT !.weight = c.weight]
                   IN IF HasAttr(c, "bias") THEN [w EXCEPT !.bias = c.bias] ELSE w
              ELSE new_module
        hasState == HasAttr(c, "state") /\ c.state /= "None"
        m2 == IF hasState
              THEN IF HasAttr(m1, "base_layer")
                   THEN ModuleTo([m1 EXCEPT !.base_layer =
                                     [state |-> c.state] @@ m1.base_layer],
                                 c.weight.device)
                   ELSE ModuleTo([state |-> c.state] @@ m1, c.weight.device)
              ELSE m1
        \* the submodules of new_module with "boft_" in their name
        to(tbl) == [a \in DOMAIN tbl |-> [tbl[a] EXCEPT !.device = c.weight.device]]
        m3 == IF HasAttr(m2, "boft_R")
              THEN [m2 EXCEPT !.boft_R = IF In("boft_", <<"boft_R">>) THEN to(@) ELSE @,
                              !.boft_s = IF In("boft_", <<"boft_s">>) THEN to(@) ELSE @]
              ELSE m2
    IN [tree EXCEPT ![child_name] = m3]

\* _create_new_module: [raises, new_module, fan_in_fan_out], the last being
\* the value it leaves in boft_config.fan_in_fan_out
CreateNewModule(boft_config, adapter, target, kwargs) ==
    IF IsTorchLinear(target)
    THEN LET kw == IF kwargs.fan_in_fan_out
                   THEN [kwargs EXCEPT !.fan_in_fan_out = FALSE] ELSE kwargs
         IN [raises |-> "None",
             new_module |-> BOFTLinear(adapter, target.in_features,
                                       target.out_features, kwargs.bias, kw),
             fan_in_fan_out |-> kw.fan_in_fan_out]
    ELSE [raises |-> "ValueError", new_module |-> None,
          fan_in_fan_out |-> boft_config.fan_in_fan_out]

\* _create_and_replace(boft_config, adapter, target, target_name, parent):
\* [raises, model, fan_in_fan_out]
CreateAndReplace(tree, active, boft_config, adapter, target_name) ==
    LET target == tree[target_name]
        bias == HasAttr(target, "bias") /\ target.bias /= None
        kwargs == [boft_block_size |-> boft_config.boft_block_size,
                   boft_block_num |-> boft_config.boft_block_num,
                   boft_n_butterfly_factor |-> boft_config.boft_n_butterfly_factor,
                   boft_dropout |-> boft_config.boft_dropout,
                   fan_in_fan_out |-> boft_config.fan_in_fan_out,
                   init_boft_weights |-> boft_config.init_boft_weights,
                   bias |-> bias]
    IN IF ~IsBOFTLayer(target)
       THEN LET made == CreateNewModule(boft_config, adapter, target, kwargs)
                new_module == IF adapter /= active
                              THEN RequiresGrad(made.new_module, FALSE)
                              ELSE made.new_module
            IN IF made.raises /= "None"
               THEN [raises |-> made.raises, model |-> tree,
                     fan_in_fan_out |-> made.fan_in_fan_out]
               ELSE [raises |-> "None",
                     model |-> ReplaceModule(tree, target_name, new_module, target),
                     fan_in_fan_out |-> made.fan_in_fan_out]
       ELSE [raises |-> "None",
             model |-> [tree EXCEPT ![target_name] =
                          UpdateLayer(target, adapter,
                                      boft_config.boft_block_size,
                                      boft_config.boft_block_num,
                                      boft_config.boft_n_butterfly_factor,
                                      boft_config.boft_bias_fit,
                                      boft_config.boft_dropout,
                                      boft_config.init_boft_weights)],
             fan_in_fan_out |-> boft_config.fan_in_fan_out]

\* the two assignments to requires_grad made in loops over named_parameters:
\* line 178 under the test of line 177, line 188 under the test of line 187
Assign(stmt, n, p) ==
    CASE stmt = "freeze" -> IF ~In("boft_", n) THEN [p EXCEPT !.requires_grad = FALSE] ELSE p
      [] stmt = "bias" -> IF In("bias", n) THEN [p EXCEPT !.requires_grad = TRUE] ELSE p

\* stmt applied to the module's own parameters
MapOwnParams(prefix, m, stmt) ==
    LET m1 == IF HasAttr(m, "weight")
              THEN [m EXCEPT !.weight = Assign(stmt, prefix \o <<"weight">>, @)] ELSE m
        m2 == IF HasAttr(m1, "bias") /\ m1.bias /= None
              THEN [m1 EXCEPT !.bias = Assign(stmt, prefix \o <<"bias">>, @)] ELSE m1
    IN IF HasAttr(m2, "boft_R")
       THEN [m2 EXCEPT
               !.boft_R = [a \in DOMAIN @ |-> Assign(stmt, prefix \o <<"boft_R", a>>, @[a])],
               !.boft_s = [a \in DOMAIN @ |-> Assign(stmt, prefix \o <<"boft_s", a>>, @[a])]]
       ELSE m2

\* for n, p in tree.named_parameters(): stmt
MapParams(tree, stmt) ==
    [k \in DOMAIN tree |->
       IF IsModulesToSaveWrapper(tree[k])
       THEN [tree[k] EXCEPT
               !.original_module = MapOwnParams(<<k, "original_module">>, @, stmt),
               !.modules_to_save =
                   [a \in DOMAIN @ |-> MapOwnParams(<<k, "modules_to_save", a>>, @[a], stmt)]]
       ELSE MapOwnParams(<<k>>, tree[k], stmt)]

\* the bias policy with "boft_only" enabling the bias of every module,
\* adapter layer or not
ApplyBiasPolicyAnyModule(tree, bias) ==
    IF bias \in {"all", "boft_only"}
    THEN MapParams(tree, "bias")
    ELSE tree

\* the bias policy applied for one active adapter (lines 181-194)
ApplyBiasPolicy(tree, bias) ==
    IF bias = "all"
    THEN MapParams(tree, "bias")
    ELSE IF bias = "boft_only"
    THEN [k \in DOMAIN tree |->
            IF IsBOFTLayer(tree[k]) /\ HasAttr(tree[k], "bias") /\ tree[k].bias /= None
            THEN [tree[k] EXCEPT !.bias.requires_grad = TRUE]
            ELSE tree[k]]
    ELSE tree

\* _mark_only_adapters_as_trainable: [raises, model]; self.active_adapters
\* is [self.active_adapter]
MarkOnlyAdaptersAsTrainable(tree, cfgs, active) ==
    LET frozen == MapParams(tree, "freeze")
    IN IF active \notin KeySet(cfgs)
       THEN [raises |-> "KeyError", model |-> frozen]
       ELSE LET bias == ConfigOf(cfgs, active).bias
            IN IF bias \in {"none", "all", "boft_only"}
               THEN [raises |-> "None", model |-> ApplyBiasPolicy(frozen, bias)]
               ELSE [raises |-> "NotImplementedError", model |-> frozen]

\* {k: v.value if isinstance(v, Enum) else v for k, v in asdict(value).items()}
AsPlainDict(config) ==
    [k \in DOMAIN config |-> IF k \in EnumFields THEN config[k].value ELSE config[k]]

\* get_peft_config_as_dict: [raises, value].  The loop rebinds config for
\* every adapter; config_dict[key] = config runs once, after the loop; the
\* function returns config.
GetPeftConfigAsDict(cfgs, inference) ==
    IF Len(cfgs) = 0
    THEN [raises |-> "UnboundLocalError", value |-> "None"]
    ELSE LET config == AsPlainDict(cfgs[Len(cfgs)].config)
         IN [raises |-> "None",
             value |-> IF inference THEN [config EXCEPT !.inference_mode = TRUE]
                       ELSE config]

\* _set_adapter_layers(enabled)
SetAdapterLayers(tree, enabled) ==
    [k \in DOMAIN tree |->
       IF IsBOFTLayer(tree[k]) \/ IsModulesToSaveWrapper(tree[k])
       THEN EnableAdapters(tree[k], enabled) ELSE tree[k]]

\* the unload of one layer with the replacement made before the merge: the
\* plain layer gets the weight as it is before merging
UnloadLayerReplaceFirst(tree, name, target, merge, safe_merge, events) ==
    [model |-> ReplaceModule(tree, name,
                             TorchLinear(target.in_features, target.out_features,
                                         target.bias /= None),
                             target),
     log |-> events
             \o <<[op |-> "replace", key |-> name]>>
             \o (IF merge THEN <<[op |-> "merge", key |-> name,
                                  safe_merge |-> safe_merge]>> ELSE <<>>)]

\* one BOFT layer of the unload loop (lines 279-284): [model, log]
UnloadLayer(tree, name, target, merge, safe_merge, events) ==
    LET bias == target.bias /= None
        new_module == TorchLinear(target.in_features, target.out_features, bias)
        merged == IF merge THEN Merge(target, safe_merge) ELSE target
    IN [model |-> ReplaceModule(tree, name, new_module, merged),
        log |-> events
                \o (IF merge THEN <<[op |-> "merge", key |-> name,
                                     safe_merge |-> safe_merge]>> ELSE <<>>)
                \o <<[op |-> "replace", key |-> name]>>]

\* the loop of _unload_and_optionally_merge over key_list: [model, log]
RECURSIVE UnloadLoop(_, _, _, _, _)
UnloadLoop(tree, keys, merge, safe_merge, events) ==
    IF keys = <<>> THEN [model |-> tree, log |-> events]
    ELSE LET key == Head(keys) IN
         IF ~Resolves(tree, key)
         THEN UnloadLoop(tree, Tail(keys), merge, safe_merge, events)
         ELSE LET target == GetTarget(tree, key)
                  s1 == IF IsBOFTLayer(target)
                        THEN UnloadLayer(tree, key[1], target, merge, safe_merge, events)
                        ELSE [model |-> tree, log |-> events]
                  s2 == IF IsModulesToSaveWrapper(target)
                        THEN [s1.model EXCEPT ![key[1]] =
                                 target.modules_to_save[target.active_adapter]]
                        ELSE s1.model
              IN UnloadLoop(s2, Tail(keys), merge, safe_merge, s1.log)

\* the unload loop run over the keys that contain "boft" instead of those
\* that do not
UnloadOverAdapterKeys(tree, merge, safe_merge) ==
    UnloadLoop(tree,
               SelectSeq(NamedModules(tree), LAMBDA key : In("boft", key)),
               merge, safe_merge, <<>>)

\* _unload_and_optionally_merge(merge, progressbar, safe_merge): [model, log]
UnloadAndOptionallyMerge(tree, merge, safe_merge) ==
    UnloadLoop(tree,
               SelectSeq(NamedModules(tree), LAMBDA key : ~In("boft", key)),
               merge, safe_merge, <<>>)

\* the delete of one layer with "boft_s" missing from the list of tables
DeleteFromLayerKeepingScale(target, adapter, cfgs) ==
    LET pop(tbl) == [a \in DOMAIN tbl \ {adapter} |-> tbl[a]]
        popped == [target EXCEPT !.boft_block_size = pop(@),
                                 !.boft_block_num = pop(@),
                                 !.boft_R = pop(@),
                                 !.boft_dropout = pop(@)]
    IN IF adapter = target.active_adapter
       THEN LayerSetAdapter(popped, IF Len(cfgs) > 0 THEN Keys(cfgs)[1] ELSE "default")
       ELSE popped

\* one BOFT layer of the delete loop (lines 307-323)
DeleteFromLayer(target, adapter, cfgs) ==
    LET pop(tbl) == [a \in DOMAIN tbl \ {adapter} |-> tbl[a]]
        popped == [target EXCEPT !.boft_block_size = pop(@),
                                 !.boft_block_num = pop(@),
                                 !.boft_R = pop(@),
                                 !.boft_s = pop(@),
                                 !.boft_dropout = pop(@)]
        resetting_active_adapter ==
            IF Len(cfgs) > 0 THEN Keys(cfgs)[1] ELSE "default"
    IN IF adapter = target.active_adapter
       THEN LayerSetAdapter(popped, resetting_active_adapter)
       ELSE popped

\* the loop of delete_adapter over key_list: [raises, model]
RECURSIVE DeleteLoop(_, _, _, _)
DeleteLoop(tree, keys, adapter, cfgs) ==
    IF keys = <<>> THEN [raises |-> "None", model |-> tree]
    ELSE LET key == Head(keys) IN
         IF ~Resolves(tree, key)
         THEN [raises |-> "AttributeError", model |-> tree]
         ELSE IF IsBOFTLayer(GetTarget(tree, key))
         THEN DeleteLoop([tree EXCEPT ![key[1]] = DeleteFromLayer(@, adapter, cfgs)],
                         Tail(keys), adapter, cfgs)
         ELSE DeleteLoop(tree, Tail(keys), adapter, cfgs)

\* delete_adapter(adapter) once adapter is known to be registered:
\* [raises, peft_config, model]
DeleteAdapterBody(tree, cfgs, adapter) ==
    LET rest == DelKey(cfgs, adapter)
        done == DeleteLoop(tree,
                           SelectSeq(NamedModules(tree), LAMBDA key : ~In("lora", key)),
                           adapter, rest)
    IN [raises |-> done.raises, peft_config |-> rest, model |-> done.model]

-----------------------------------------------------------------------------
(* The callers of BOFTModel's hooks: BaseTuner and PeftModel *)

\* the keys inject_adapter hands to _create_and_replace: those for which
\* _check_target_module_exists(boft_config, key) holds, in tree order
MatchedKeys(config) == SelectSeq(SlotOrder, LAMBDA k : k \in config.target_modules)

\* PeftModel.set_additional_trainable_modules: every module named in
\* modules_to_save is wrapped, or its wrapper gets a copy for the adapter
SetTrainable(tree, adapter, modules_to_save) ==
    [k \in DOMAIN tree |->
       IF k \notin modules_to_save THEN tree[k]
       ELSE IF IsModulesToSaveWrapper(tree[k])
       THEN [tree[k] EXCEPT !.modules_to_save =
               [a \in DOMAIN @ \cup {adapter} |->
                  IF a = adapter THEN RequiresGrad(tree[k].original_module, TRUE)
                  ELSE @[a]]]
       ELSE [class |-> "ModulesToSaveWrapper",
             original_module |-> tree[k],
             modules_to_save |-> (adapter :> RequiresGrad(tree[k], TRUE)),
             active_adapter |-> adapter,
             disable_adapters |-> FALSE]]

\* a finished call that raised err ("None": it returned) or returned value
Returned(op, arg, err, value) == [op |-> op, arg |-> arg, err |-> err, value |-> value]

Call(op, arg, err) == Returned(op, arg, err, "None")

-----------------------------------------------------------------------------
(* State machine *)

\* BOFTModel(model, config, adapter_name), inside BaseTuner.__init__: the
\* registry holds the first adapter, which is the active one, and
\* inject_adapter is about to run
Init ==
    /\ model = BaseModel
    /\ \E n \in AdapterNames, c \in Configs :
          /\ peft_config = <<[name |-> n, config |-> c]>>
          /\ active_adapter = n
          /\ adapter_name = n
    /\ pc = "check"
    /\ key_list = <<>>
    /\ last = Call("__init__", "", "None")
    /\ log = <<>>
    /\ injections = 1
    /\ dropout_entries_are_modules \in BOOLEAN

\* PeftModel.add_adapter(name, config): registers the configuration and
\* starts inject_adapter
AddAdapter(n, c) ==
    /\ pc = "idle"
    /\ n \notin KeySet(peft_config)
    /\ injections < MaxInjections
    /\ injections' = injections + 1
    /\ peft_config' = Append(peft_config, [name |-> n, config |-> c])
    /\ adapter_name' = n
    /\ pc' = "check"
    /\ last' = Call("add_adapter", n, "None")
    /\ UNCHANGED <<model, active_adapter, key_list, log,
                   dropout_entries_are_modules>>

\* inject_adapter calls _check_new_adapter_config(peft_config[adapter_name])
CheckNewAdapterConfig ==
    /\ pc = "check"
    /\ LET config == ConfigOf(peft_config, adapter_name)
           raises == CheckNewAdapterConfigRaises(peft_config, config)
       IN /\ pc' = IF raises THEN "failed" ELSE "inject"
          /\ key_list' = IF raises THEN <<>> ELSE MatchedKeys(config)
          /\ last' = Call("_check_new_adapter_config", adapter_name,
                          IF raises THEN "ValueError" ELSE "None")
    /\ UNCHANGED <<model, peft_config, active_adapter, adapter_name, log,
                   injections, dropout_entries_are_modules>>

\* inject_adapter calls _create_and_replace on the next matched key
CreateAndReplaceStep ==
    /\ pc = "inject"
    /\ key_list /= <<>>
    /\ LET i == Lookup(peft_config, adapter_name)
           r == CreateAndReplace(model, active_adapter, peft_config[i].config,
                                 adapter_name, Head(key_list))
       IN /\ model' = r.model
          /\ peft_config' = [peft_config EXCEPT
                                ![i].config.fan_in_fan_out = r.fan_in_fan_out]
          /\ last' = Call("_create_and_replace", Head(key_list), r.raises)
          /\ IF r.raises /= "None"
             THEN pc' = "failed" /\ key_list' = key_list
             ELSE /\ key_list' = Tail(key_list)
                  /\ pc' = IF Tail(key_list) = <<>> THEN "mark" ELSE "inject"
    /\ UNCHANGED <<active_adapter, adapter_name, log,
                   injections, dropout_entries_are_modules>>

\* inject_adapter calls _mark_only_adapters_as_trainable
MarkStep ==
    /\ pc = "mark"
    /\ LET r == MarkOnlyAdaptersAsTrainable(model, peft_config, active_adapter)
       IN /\ model' = r.model
          /\ pc' = IF r.raises /= "None" THEN "failed" ELSE "wrap"
          /\ last' = Call("_mark_only_adapters_as_trainable", adapter_name, r.raises)
    /\ UNCHANGED <<peft_config, active_adapter, adapter_name, key_list, log,
                   injections, dropout_entries_are_modules>>

\* after inject_adapter, the modules_to_save of the new adapter are wrapped
SetTrainableStep ==
    /\ pc = "wrap"
    /\ model' = SetTrainable(model, adapter_name,
                             ConfigOf(peft_config, adapter_name).modules_to_save)
    /\ pc' = "idle"
    /\ last' = Call("inject_adapter", adapter_name, "None")
    /\ UNCHANGED <<peft_config, active_adapter, adapter_name, key_list, log,
                   injections, dropout_entries_are_modules>>

\* delete_adapter(n)
DeleteAdapter(n) ==
    /\ pc = "idle"
    /\ IF n \notin KeySet(peft_config)
       THEN /\ last' = Call("delete_adapter", n, "ValueError")
            /\ UNCHANGED <<model, peft_config, pc>>
       ELSE LET r == DeleteAdapterBody(model, peft_config, n)
            IN /\ peft_config' = r.peft_config
               /\ model' = r.model
               /\ last' = Call("delete_adapter", n, r.raises)
               /\ pc' = IF r.raises /= "None" THEN "failed" ELSE "idle"
    /\ UNCHANGED <<active_adapter, adapter_name, key_list, log,
                   injections, dropout_entries_are_modules>>

\* set_adapter(n): the loop over self.model.modules() tests
\* isinstance(module, LoraLayer) on its first module, the root; the module
\* neither imports nor defines LoraLayer
SetAdapter(n) ==
    /\ pc = "idle"
    /\ last' = Call("set_adapter", n,
                    IF Len(NamedModules(model)) > 0 THEN "NameError" ELSE "None")
    /\ UNCHANGED <<model, peft_config, active_adapter, pc, adapter_name, key_list,
                   log, injections, dropout_entries_are_modules>>

\* enable_adapter_layers()
EnableAdapterLayers ==
    /\ pc = "idle"
    /\ model' = SetAdapterLayers(model, TRUE)
    /\ last' = Call("enable_adapter_layers", "", "None")
    /\ UNCHANGED <<peft_config, active_adapter, pc, adapter_name, key_list,
                   log, injections, dropout_entries_are_modules>>

\* disable_adapter_layers(): self.peft_config[active_adapter] is read first
DisableAdapterLayers ==
    /\ pc = "idle"
    /\ IF active_adapter \in KeySet(peft_config)
       THEN /\ model' = SetAdapterLayers(model, FALSE)
            /\ last' = Call("disable_adapter_layers", "", "None")
       ELSE /\ model' = model
            /\ last' = Call("disable_adapter_layers", "", "KeyError")
    /\ UNCHANGED <<peft_config, active_adapter, pc, adapter_name, key_list,
                   log, injections, dropout_entries_are_modules>>

\* get_peft_config_as_dict(inference)
GetPeftConfigAsDictCall(inference) ==
    /\ pc = "idle"
    /\ LET r == GetPeftConfigAsDict(peft_config, inference)
       IN last' = Returned("get_peft_config_as_dict", inference, r.raises, r.value)
    /\ UNCHANGED <<model, peft_config, active_adapter, pc, adapter_name, key_list,
                   log, injections, dropout_entries_are_modules>>

\* unload() leaving merge at its default, True
UnloadResultMerging(tree) == UnloadAndOptionallyMerge(tree, TRUE, FALSE)

\* the model and log unload() leaves
UnloadResult(tree) == UnloadAndOptionallyMerge(tree, FALSE, FALSE)

\* the model and log merge_and_unload(safe_merge=safe_merge) leaves
MergeAndUnloadResult(tree, safe_merge) == UnloadAndOptionallyMerge(tree, TRUE, safe_merge)

\* unload()
Unload ==
    /\ pc = "idle"
    /\ model' = UnloadResult(model).model
    /\ log' = UnloadResult(model).log
    /\ pc' = "unloaded"
    /\ last' = Call("unload", "", "None")
    /\ UNCHANGED <<peft_config, active_adapter, adapter_name, key_list,
                   injections, dropout_entries_are_modules>>

\* merge_and_unload(safe_merge=safe_merge)
MergeAndUnload(safe_merge) ==
    /\ pc = "idle"
    /\ model' = MergeAndUnloadResult(model, safe_merge).model
    /\ log' = MergeAndUnloadResult(model, safe_merge).log
    /\ pc' = "unloaded"
    /\ last' = Call("merge_and_unload", safe_merge, "None")
    /\ UNCHANGED <<peft_config, active_adapter, adapter_name, key_list,
                   injections, dropout_entries_are_modules>>

Next ==
    \/ \E n \in AdapterNames, c \in Configs : AddAdapter(n, c)
    \/ CheckNewAdapterConfig
    \/ CreateAndReplaceStep
    \/ MarkStep
    \/ SetTrainableStep
    \/ \E n \in AdapterNames : DeleteAdapter(n)
    \/ \E n \in AdapterNames : SetAdapter(n)
    \/ EnableAdapterLayers
    \/ DisableAdapterLayers
    \/ \E inference \in BOOLEAN : GetPeftConfigAsDictCall(inference)
    \/ Unload
    \/ \E safe_merge \in BOOLEAN : MergeAndUnload(safe_merge)

Spec == Init /\ [][Next]_vars

-----------------------------------------------------------------------------
(* Vocabulary of the properties *)

\* the slots holding a BOFT adapter layer
AdapterSlots(tree) == {k \in DOMAIN tree : IsBOFTLayer(tree[k])}

\* tree.named_parameters(): the set of [name, p]
NamedParameters(tree) ==
    LET own(prefix, m) ==
            {[name |-> prefix \o <<f>>, p |-> m[f]] :
                f \in {g \in {"weight", "bias"} : HasAttr(m, g) /\ m[g] /= None}}
            \cup (IF HasAttr(m, "boft_R")
                  THEN {[name |-> prefix \o <<"boft_R", a>>, p |-> m.boft_R[a]] :
                            a \in DOMAIN m.boft_R}
                       \cup {[name |-> prefix \o <<"boft_s", a>>, p |-> m.boft_s[a]] :
                            a \in DOMAIN m.boft_s}
                  ELSE {})
    IN UNION {IF IsModulesToSaveWrapper(tree[k])
              THEN own(<<k, "original_module">>, tree[k].original_module)
                   \cup UNION {own(<<k, "modules_to_save", a>>, tree[k].modules_to_save[a]) :
                                  a \in DOMAIN tree[k].modules_to_save}
              ELSE own(<<k>>, tree[k]) : k \in DOMAIN tree}

\* the per-adapter tables of a BOFT adapter layer
Tables(layer) ==
    [boft_block_size |-> layer.boft_block_size, boft_block_num |-> layer.boft_block_num,
     boft_R |-> layer.boft_R, boft_s |-> layer.boft_s,
     boft_dropout |-> layer.boft_dropout]

\* the same tensor: the same parameter holding the same data
SameTensor(p, q) == p.id = q.id /\ (p /= None => p.data = q.data)

\* the places of the events of the unload log that are op on key
Events(events, op, key) ==
    {i \in 1..Len(events) : events[i].op = op /\ events[i].key = key}

-----------------------------------------------------------------------------
(* Properties *)

\* C1: when unload() or merge_and_unload() returns, no slot of the tree
\* holds a BOFT adapter layer or a ModulesToSaveWrapper: every adapter layer
\* has been replaced, in its slot, by a plain Linear with the same in and
\* out features and the same presence of bias, and every wrapper by the
\* module it keeps for its active adapter.
C1_UnloadRestoresPlainModel ==
    [][pc' = "unloaded" =>
         \A k \in DOMAIN model :
            /\ ~IsBOFTLayer(model'[k])
            /\ ~IsModulesToSaveWrapper(model'[k])
            /\ IsBOFTLayer(model[k]) =>
                  /\ model'[k].class = "Linear"
                  /\ model'[k].in_features = model[k].in_features
                  /\ model'[k].out_features = model[k].out_features
                  /\ (model'[k].bias = None) <=> (model[k].bias = None)
            /\ IsModulesToSaveWrapper(model[k]) =>
                  model'[k] = model[k].modules_to_save[model[k].active_adapter]]_vars

\* C1 witness: an unload has replaced adapter layers and unwrapped cls (the
\* copy kept for the adapter is trainable, the frozen original is not)
C1_Witness ==
    /\ pc = "unloaded"
    /\ Events(log, "replace", "q") /= {}
    /\ model.cls.class = "Linear"
    /\ model.cls.weight.requires_grad

\* C2: after unload(), every layer that was wrapped is a plain layer whose
\* weight and bias are those the base layer had before any adapter was
\* injected, and unload() called merge on no layer.
C2_UnloadGivesBackBaseWeights ==
    (pc = "unloaded" /\ last.op = "unload") =>
        /\ \A i \in 1..Len(log) : log[i].op /= "merge"
        /\ \A k \in DOMAIN model :
              Events(log, "replace", k) /= {} =>
                 /\ model[k].class = "Linear"
                 /\ SameTensor(model[k].weight, BaseModel[k].weight)
                 /\ SameTensor(model[k].bias, BaseModel[k].bias)

\* C2 witness: unload() has replaced two adapter layers after an adapter
\* was deleted
C2_Witness ==
    /\ pc = "unloaded" /\ last.op = "unload"
    /\ Events(log, "replace", "q") /= {}
    /\ Events(log, "replace", "v") /= {}
    /\ Len(peft_config) = 0

\* C3: _mark_only_adapters_as_trainable leaves every parameter without
\* "boft_" in its name frozen, except: under the active adapter's policy
\* "all", exactly those with "bias" in their name are trainable; under
\* "boft_only", exactly the non-null bias of the BOFT adapter layers; under
\* "none", none.  Any other policy raises NotImplementedError.  The flag of
\* a parameter with "boft_" in its name is never changed.
C3_MarkOnlyAdaptersAsTrainable ==
    [][pc = "mark" =>
         LET policy == IF active_adapter \in KeySet(peft_config)
                       THEN ConfigOf(peft_config, active_adapter).bias
                       ELSE "KeyError"
             layerBias(n) == /\ Len(n) = 2 /\ n[2] = "bias"
                             /\ IsBOFTLayer(model'[n[1]])
         IN /\ \A e \in NamedParameters(model') :
                  ~In("boft_", e.name) =>
                     e.p.requires_grad =
                        CASE policy = "all" -> In("bias", e.name)
                          [] policy = "boft_only" -> layerBias(e.name)
                          [] OTHER -> FALSE
            /\ (last'.err = "NotImplementedError")
                   <=> (policy \notin {"none", "all", "boft_only", "KeyError"})
            /\ policy \in {"none", "all", "boft_only"} => last'.err = "None"
            /\ {e \in NamedParameters(model') : In("boft_", e.name)}
                   = {e \in NamedParameters(model) : In("boft_", e.name)}]_vars

\* C3 witness: the marker has run under "boft_only": the bias of the adapter
\* layer q is trainable, its weight and the bias of ln are frozen, and a
\* frozen adapter parameter is still frozen
C3_Witness ==
    /\ last.op = "_mark_only_adapters_as_trainable" /\ last.err = "None"
    /\ IsBOFTLayer(model.q)
    /\ model.q.bias.requires_grad
    /\ ~model.q.weight.requires_grad
    /\ ~model.ln.bias.requires_grad
    /\ \E a \in DOMAIN model.q.boft_R : ~model.q.boft_R[a].requires_grad

\* C4: once an injection has completed, a registry of more than one adapter
\* holds only adapters whose bias is "none".
C4_OnlyOneAdapterWithBias ==
    (pc = "idle" /\ Len(peft_config) > 1) =>
        \A i \in 1..Len(peft_config) : peft_config[i].config.bias = "none"

\* C5: _create_and_replace on a torch.nn.Linear target puts an adapter
\* layer in the same slot, carrying the target's weight, bias and
\* quantization state, with its boft_ tables on the device of the target's
\* weight; on an adapter layer it adds the adapter to that layer and keeps
\* everything the layer held; on any other target it raises ValueError
\* and the slot keeps the target.  No other slot changes.
C5_CreateAndReplace ==
    [][pc = "inject" =>
         LET k == Head(key_list)
             old == model[k]
             new == model'[k]
         IN /\ \A j \in DOMAIN model \ {k} : model'[j] = model[j]
            /\ (~IsBOFTLayer(old) /\ IsTorchLinear(old)) =>
                  /\ last'.err = "None"
                  /\ IsBOFTLayer(new)
                  /\ new.weight = old.weight
                  /\ new.bias = old.bias
                  /\ HasAttr(old, "state") => (HasAttr(new, "state") /\ new.state = old.state)
                  /\ DOMAIN new.boft_R = {adapter_name}
                  /\ \A t \in {"boft_R", "boft_s"} : \A a \in DOMAIN new[t] :
                        new[t][a].device = old.weight.device
            /\ IsBOFTLayer(old) =>
                  /\ last'.err = "None"
                  /\ IsBOFTLayer(new)
                  /\ new.weight = old.weight /\ new.bias = old.bias
                  /\ new.active_adapter = old.active_adapter
                  /\ \A t \in DOMAIN Tables(new) :
                        /\ DOMAIN Tables(new)[t] = DOMAIN Tables(old)[t] \cup {adapter_name}
                        /\ \A a \in DOMAIN Tables(old)[t] \ {adapter_name} :
                              Tables(new)[t][a] = Tables(old)[t][a]
            /\ (~IsBOFTLayer(old) /\ ~IsTorchLinear(old)) =>
                  /\ last'.err = "ValueError"
                  /\ new = old]_vars

\* C5 witness: the quantized layer v has just been replaced by an adapter
\* layer that carries its quantization state, with tables on its device
C5_Witness ==
    /\ last.op = "_create_and_replace" /\ last.arg = "v" /\ last.err = "None"
    /\ IsBOFTLayer(model.v)
    /\ model.v.state = BaseModel.v.state
    /\ DOMAIN model.v.boft_R = {adapter_name}
    /\ model.v.boft_R[adapter_name].device = BaseModel.v.weight.device

\* C6: merge_and_unload(safe_merge) calls merge(safe_merge) exactly once on
\* every adapter layer of the tree, before it replaces that layer, and the
\* plain layer gets the merged weight; no layer is replaced unmerged.
C6_MergeBeforeReplace ==
    [][(pc' = "unloaded" /\ last'.op = "merge_and_unload") =>
         \A k \in DOMAIN model :
            IF IsBOFTLayer(model[k])
            THEN /\ Cardinality(Events(log', "merge", k)) = 1
                 /\ Cardinality(Events(log', "replace", k)) = 1
                 /\ \A i \in Events(log', "merge", k) :
                       /\ log'[i].safe_merge = last'.arg
                       /\ \A j \in Events(log', "replace", k) : i < j
                 /\ model'[k].weight = Merge(model[k], last'.arg).weight
            ELSE Events(log', "replace", k) = {}]_vars

\* C6 witness: merge_and_unload has merged and then replaced q and v, and
\* the plain q holds a weight with the adapter folded in
C6_Witness ==
    /\ pc = "unloaded" /\ last.op = "merge_and_unload"
    /\ Len(log) = 4
    /\ Len(model.q.weight.data) = 2

C8_SetAdapter ==
    last.op = "set_adapter" =>
        /\ last.err = "None"
        /\ \A k \in AdapterSlots(model) :
              model[k].active_adapter = last.arg /\ ~model[k].merged

\* C9: get_peft_config_as_dict(inference) returns a mapping with exactly
\* one entry per registered adapter, the adapter's configuration with enum
\* values replaced by plain values and inference_mode TRUE when inference.
C9_GetPeftConfigAsDict ==
    last.op = "get_peft_config_as_dict" =>
        /\ last.err = "None"
        /\ DOMAIN last.value = KeySet(peft_config)
        /\ \A i \in 1..Len(peft_config) :
              LET config == peft_config[i].config
                  entry == last.value[peft_config[i].name]
              IN /\ DOMAIN entry = DOMAIN config
                 /\ entry.peft_type = config.peft_type.value
                 /\ entry.inference_mode = (last.arg \/ config.inference_mode)
                 /\ \A f \in DOMAIN config \ {"peft_type", "inference_mode"} :
                       entry[f] = config[f]

\* C10: between calls, the active adapter of the model and of every BOFT
\* adapter layer is the name of a registered adapter.
C10_ActiveAdapterRegistered ==
    pc = "idle" =>
        /\ active_adapter \in KeySet(peft_config)
        /\ \A k \in AdapterSlots(model) :
              model[k].active_adapter \in KeySet(peft_config)

====
